---- MODULE Spec2Model ----
(***************************************************************************)
(* Model of the Context7 streamable-HTTP server (src/src/index.ts): the    *)
(* session registry `transports`, the /mcp router for POST, GET and        *)
(* DELETE, the shutdown handlers and the token schema of get-library-docs. *)
(* The transport and the protocol engine come from the MCP SDK; their      *)
(* state machine is modelled from the design document (UNBOUND, BOUND,     *)
(* CLOSED) and from the calls index.ts makes on them.                      *)
(***************************************************************************)
EXTENDS Integers, FiniteSets, Sequences, TLC

\* ---------------------------------------------------------------- bounds
MaxTransports == 2      \* transport instances that can be constructed
MaxIds == 2             \* distinct values randomUUID() can return
MaxPending == 1         \* POST responses in flight per transport
MaxTokenChars == 4      \* length of a `tokens` argument given as a string
MaxPieces == 3          \* pieces a library id argument is put together from
MaxResults == 2         \* libraries a search can return

\* ------------------------------------------------------------- constants
DEFAULT_MINIMUM_TOKENS == 5000

Transports == 1..MaxTransports
undefined == 0                       \* JS undefined, for a transport slot
ObjectMember == -1                   \* a member inherited from Object.prototype
SessionIds == {"u" \o ToString(i) : i \in 1..MaxIds}
NoId == ""                           \* header missing / sessionId undefined
InheritedKeys == {"constructor"}     \* keys every plain object answers to
HeaderValues == {NoId} \cup SessionIds \cup InheritedKeys
Signals == {"SIGINT", "SIGTERM"}

\* ----------------------------------------------------------------- state
VARIABLES
    transports,   \* the registry: session id -> transport (undefined = no entry)
    tState,       \* per transport: "absent", "connecting", "open", "closed"
    tSessionId,   \* per transport: transport.sessionId (NoId until the handshake)
    tGet,         \* per transport: the GET notification stream is open
    tPending,     \* per transport: POST responses not yet written
    engine,       \* server._transport: the transport the engine was last bound to
    bound,        \* per transport: number of server.connect(transport) calls
    exited,       \* process.exit was reached (or the process crashed)
    exitCode,     \* the exit code, -1 while running
    last,         \* the most recent operation and its HTTP outcome
    call          \* a get-library-docs tool call: its arguments and what was fetched

vars == <<transports, tState, tSessionId, tGet, tPending, engine, bound,
          exited, exitCode, last, call>>

\* ------------------------------------------------------- response bodies
NoBody == [type |-> "none", code |-> 0, message |-> "", id |-> ""]

\* mutant: the reject branch words its message differently
ErrorEnvelope_sessionNotFound ==
    [type |-> "jsonrpc", code |-> -32000, message |-> "session not found",
     id |-> "null"]

\* lines 173-180: the body of the 400 answer of the POST route
ErrorEnvelope ==
    [type |-> "jsonrpc", code |-> -32000,
     message |-> "Bad Request: No valid session ID provided or not an initialization request.",
     id |-> "null"]

InvalidSessionText ==
    [type |-> "text", code |-> 0, message |-> "Invalid or missing session ID", id |-> ""]

\* a response the transport itself writes
TransportBody == [type |-> "transport", code |-> 0, message |-> "", id |-> ""]

\* ended: the transports whose GET notification stream the operation ended
Entry(kind, hdr, init, status, body, delegated, constructed, ended) ==
    [kind |-> kind, hdr |-> hdr, init |-> init, status |-> status, body |-> body,
     delegated |-> delegated, constructed |-> constructed, ended |-> ended]

\* ------------------------------------------------------------ tool calls
\* a value of the `tokens` argument: absent, a number, NaN or a string
NoTokens == [type |-> "undefined", num |-> 0, str |-> <<>>]
NumberValue(n) == [type |-> "number", num |-> n, str |-> <<>>]
StringValue(str) == [type |-> "string", num |-> 0, str |-> str]
NaN == [type |-> "NaN", num |-> 0, str |-> <<>>]
\* a search response: null, an object without `results`, or n results
NoSearch == [kind |-> "none", n |-> 0]
NoCall == [stage |-> "idle", tool |-> "", tokens |-> NoTokens, parsed |-> NoTokens,
           fetched |-> 0, libraryId |-> <<>>, fetchedId |-> <<>>, folders |-> <<>>,
           search |-> NoSearch, result |-> ""]

Digits == <<"0", "1", "2", "3", "4", "5", "6", "7", "8", "9">>
IsDigit(c) == \E i \in 1..Len(Digits) : Digits[i] = c
DigitValue(c) == (CHOOSE i \in 1..Len(Digits) : Digits[i] = c) - 1

\* the characters and numbers the `tokens` argument is drawn from
TokenChars == {"0", "5", "9", "-", "x"}
TokenNumbers == {-1, 0, 10, 4999, 5000, 5001, 9000}
TokenStrings == UNION {[1..n -> TokenChars] : n \in 0..MaxTokenChars}
TokenInputs == {NoTokens} \cup {NumberValue(n) : n \in TokenNumbers}
                          \cup {StringValue(str) : str \in TokenStrings}

RECURSIVE Decimal(_)
Decimal(str) ==
    IF str = <<>> THEN 0
    ELSE 10 * Decimal(SubSeq(str, 1, Len(str) - 1)) + DigitValue(str[Len(str)])

AllDigits(str) == Len(str) > 0 /\ \A i \in 1..Len(str) : IsDigit(str[i])

\* Number(val) for a string: "" is 0, a decimal numeral with an optional
\* minus sign is its value, anything else is NaN
Number(str) ==
    IF str = <<>> THEN NumberValue(0)
    ELSE IF AllDigits(str) THEN NumberValue(Decimal(str))
    ELSE IF str[1] = "-" /\ AllDigits(Tail(str)) THEN NumberValue(0 - Decimal(Tail(str)))
    ELSE NaN

\* z.preprocess((val) => (typeof val === "string" ? Number(val) : val), ...)
preprocess(val) == IF val.type = "string" THEN Number(val.str) ELSE val

\* z.number(): a number that is not NaN
zNumber(val) == val.type = "number"

\* mutant: the comparison is turned round, so large values are lowered
transform_lowers(val) ==
    IF val.num > DEFAULT_MINIMUM_TOKENS THEN NumberValue(DEFAULT_MINIMUM_TOKENS) ELSE val

\* .transform((val) => (val < DEFAULT_MINIMUM_TOKENS ? DEFAULT_MINIMUM_TOKENS : val))
transform(val) ==
    IF val.num < DEFAULT_MINIMUM_TOKENS THEN NumberValue(DEFAULT_MINIMUM_TOKENS) ELSE val

\* the `tokens` schema: preprocess, number, transform, optional.
\* The result is the parsed value, or "invalid".
Invalid == [type |-> "invalid", num |-> 0, str |-> <<>>]
tokensSchema(val) ==
    IF val.type = "undefined" THEN NoTokens
    ELSE IF zNumber(preprocess(val)) THEN transform(preprocess(val))
    ELSE Invalid

\* the "?folders=" marker, character by character
FoldersMarker == <<"?", "f", "o", "l", "d", "e", "r", "s", "=">>

\* the library ids a call is made with: up to MaxPieces pieces in a row
IdPieces == {<<"v">>, <<"/">>, <<"?">>, <<"=">>, FoldersMarker}
RECURSIVE Concats(_)
Concats(n) ==
    IF n = 0 THEN {<<>>}
    ELSE Concats(n - 1) \cup {p \o str : p \in IdPieces, str \in Concats(n - 1)}
LibraryIds == Concats(MaxPieces)

\* String.prototype.indexOf(sep, from), 1-based, 0 when there is none
OccursAt(str, sep, i) ==
    /\ i + Len(sep) - 1 <= Len(str)
    /\ SubSeq(str, i, i + Len(sep) - 1) = sep
IndexOf(str, sep, from) ==
    IF \E i \in from..Len(str) : OccursAt(str, sep, i)
    THEN CHOOSE i \in from..Len(str) :
            /\ OccursAt(str, sep, i)
            /\ \A j \in from..(i - 1) : ~OccursAt(str, sep, j)
    ELSE 0

\* String.prototype.includes(sep)
includes(str, sep) == IndexOf(str, sep, 1) # 0

\* String.prototype.split(sep): every part between occurrences of sep
RECURSIVE split(_, _)
split(str, sep) ==
    LET i == IndexOf(str, sep, 1) IN
    IF i = 0 THEN <<str>>
    ELSE <<SubSeq(str, 1, i - 1)>> \o split(SubSeq(str, i + Len(sep), Len(str)), sep)

\* lines 99-106: libraryId and folders as the handler forwards them
forwarded(context7CompatibleLibraryID) ==
    IF includes(context7CompatibleLibraryID, FoldersMarker)
    THEN LET parts == split(context7CompatibleLibraryID, FoldersMarker)
         IN  [libraryId |-> parts[1], folders |-> parts[2]]
    ELSE [libraryId |-> context7CompatibleLibraryID, folders |-> <<>>]

\* --------------------------------------------------------- the registry
\* transports[sessionId] on a plain object: own entries, else inherited members
Lookup(reg, h) ==
    IF h \in SessionIds THEN reg[h]
    ELSE IF h \in InheritedKeys THEN ObjectMember
    ELSE undefined

Truthy(v) == v # undefined

\* own keys of the registry
Registered(reg) == {id \in SessionIds : reg[id] # undefined}

\* mutant: the sweep over the registry is left out
Values_noSweep(reg) == {}

\* Object.values(transports)
Values(reg) == {reg[id] : id \in Registered(reg)}

\* mutant: the entry is left in place
Remove_keepsEntry(reg, id) == reg

\* mutant: the removal resets the whole registry
Remove_resetsAll(reg, id) == [k \in SessionIds |-> undefined]

\* delete transports[id]
Remove(reg, id) == [reg EXCEPT ![id] = undefined]

\* mutant: the callback stores the transport under another key than the
\* id it was called with
onsessioninitialized_wrongKey(reg, newSessionId, t) ==
    [reg EXCEPT ![CHOOSE k \in SessionIds : k # newSessionId] = t]

\* mutant: the callback keeps an entry that is already there
onsessioninitialized_keepExisting(reg, newSessionId, t) ==
    IF reg[newSessionId] # undefined THEN reg ELSE [reg EXCEPT ![newSessionId] = t]

\* mutant: the callback starts a new registry holding the one entry
onsessioninitialized_replacesRegistry(reg, newSessionId, t) ==
    [k \in SessionIds |-> IF k = newSessionId THEN t ELSE undefined]

\* mutant: the callback stores the transport constructed last, as it would
\* if `transport` were a variable the requests share
onsessioninitialized_latestTransport(reg, newSessionId, t) ==
    [reg EXCEPT ![newSessionId] =
        CHOOSE u \in Transports :
            /\ tState[u] # "absent"
            /\ \A w \in Transports : tState[w] # "absent" => w <= u]

\* onsessioninitialized: transports[newSessionId] = transport
onsessioninitialized(reg, newSessionId, t) == [reg EXCEPT ![newSessionId] = t]

\* mutant: the callback deletes under the creating request's header value,
\* which is undefined on the create path, so nothing is removed
onclose_requestHeader(reg, sid) == reg

\* mutant: a close without a session id clears the registry
onclose_resetsWhenUnbound(reg, sid) ==
    IF sid # NoId THEN Remove(reg, sid) ELSE [k \in SessionIds |-> undefined]

\* transport.onclose: if (transport.sessionId) delete transports[transport.sessionId]
onclose(reg, sid) == IF sid # NoId THEN Remove(reg, sid) ELSE reg

\* ids some transport was ever given by the generator
UsedIds == {tSessionId[t] : t \in Transports} \ {NoId}

\* sessionIdGenerator: () => randomUUID(): the values a call can return
randomUUID == SessionIds

\* the values a call returns when the generator never repeats itself
FreshUUID == randomUUID \ UsedIds

\* ------------------------------------------------- transport (SDK) model
\* The mutable state a close touches, as one record.
Bundle == [transports |-> transports, tState |-> tState, tGet |-> tGet,
           tPending |-> tPending, engine |-> engine]

\* transport.close(): end every open response stream, then fire onclose,
\* which is the router's callback followed by the engine's own cleanup.
Close(S, t) ==
    [transports |-> onclose(S.transports, tSessionId[t]),
     tState     |-> [S.tState EXCEPT ![t] = "closed"],
     tGet       |-> [S.tGet EXCEPT ![t] = FALSE],
     tPending   |-> [S.tPending EXCEPT ![t] = 0],
     engine     |-> undefined]

\* mutant: the sweep stops after the first transport
CloseEach_firstOnly(S, ts) ==
    IF ts = {} THEN S
    ELSE Close(S, CHOOSE x \in ts : \A y \in ts : x <= y)

\* Object.values(transports).forEach(transport => transport.close())
RECURSIVE CloseEach(_, _)
CloseEach(S, ts) ==
    IF ts = {} THEN S
    ELSE LET t == CHOOSE x \in ts : \A y \in ts : x <= y
         IN  CloseEach(Close(S, t), ts \ {t})

\* server.close(): closes the transport the engine is bound to, if any
ServerClose(S) == IF S.engine # undefined THEN Close(S, S.engine) ELSE S

Install(S) ==
    /\ transports' = S.transports
    /\ tState' = S.tState
    /\ tGet' = S.tGet
    /\ tPending' = S.tPending
    /\ engine' = S.engine

\* ------------------------------------------------------------------ Init
Init ==
    /\ transports = [id \in SessionIds |-> undefined]
    /\ tState = [t \in Transports |-> "absent"]
    /\ tSessionId = [t \in Transports |-> NoId]
    /\ tGet = [t \in Transports |-> FALSE]
    /\ tPending = [t \in Transports |-> 0]
    /\ engine = undefined
    /\ bound = [t \in Transports |-> 0]
    /\ exited = FALSE
    /\ exitCode = -1
    /\ last = Entry("none", NoId, FALSE, 0, NoBody, undefined, undefined, {})
    /\ call = NoCall

\* --------------------------------------------------------------- actions
\* What calling a member of Object.prototype as a transport does: the
\* TypeError escapes the async handler, and the framework either answers
\* 500, leaves the request unanswered, or the process dies on the
\* unhandled rejection.
TypeErrorOutcomes == {"error500", "hang", "crash"}

NotATransport(kind, h, init) ==
    \E outcome \in TypeErrorOutcomes :
    /\ last' = Entry(kind, h, init, IF outcome = "error500" THEN 500 ELSE 0,
                     NoBody, undefined, undefined, {})
    /\ exited' = (outcome = "crash")
    /\ exitCode' = IF outcome = "crash" THEN 1 ELSE exitCode
    /\ UNCHANGED <<transports, tState, tSessionId, tGet, tPending, engine, bound>>

\* StreamableHTTPServerTransport.handleRequest for a POST that reached a
\* transport through the registry.  ok: the request passes the transport's
\* framing checks; req: the body holds a request that needs a response.
TransportPost(t, h, init) ==
    \E ok \in BOOLEAN :
    IF ~ok THEN
        /\ last' = Entry("POST", h, init, 406, TransportBody, t, undefined, {})
        /\ UNCHANGED <<transports, tState, tSessionId, tGet, tPending, engine,
                       bound, exited, exitCode>>
    ELSE IF init \/ tSessionId[t] = NoId THEN
        \* a second initialize, or a message before the handshake
        /\ last' = Entry("POST", h, init, 400, TransportBody, t, undefined, {})
        /\ UNCHANGED <<transports, tState, tSessionId, tGet, tPending, engine,
                       bound, exited, exitCode>>
    ELSE IF h # tSessionId[t] THEN
        /\ last' = Entry("POST", h, init, 404, TransportBody, t, undefined, {})
        /\ UNCHANGED <<transports, tState, tSessionId, tGet, tPending, engine,
                       bound, exited, exitCode>>
    ELSE \E req \in BOOLEAN :
        /\ req => tPending[t] < MaxPending
        /\ tPending' = [tPending EXCEPT ![t] = IF req THEN @ + 1 ELSE @]
        /\ last' = Entry("POST", h, init, IF req THEN 200 ELSE 202,
                         TransportBody, t, undefined, {})
        /\ UNCHANGED <<transports, tState, tSessionId, tGet, engine, bound,
                       exited, exitCode>>

\* mutant: the create path keeps using one module-level transport
NextTransport_shared == CHOOSE t \in Transports : \A u \in Transports : t <= u

\* the transport the create path constructs: instances are numbered in the
\* order they are constructed
NextTransport == CHOOSE t \in Transports :
                    /\ tState[t] = "absent"
                    /\ \A u \in Transports : tState[u] = "absent" => t <= u

\* mutant: a handshake body is enough to take the create path
isCreate_anyHandshake(h, init) == h = NoId \/ init

\* line 148: !sessionId && isInitializeRequest(req.body)
isCreate(h, init) == h = NoId /\ init

\* app.post('/mcp'), up to the first suspension of the handler
Post(h, init) ==
    /\ ~exited
    /\ UNCHANGED call
    /\ LET v == Lookup(transports, h) IN
       IF h # NoId /\ Truthy(v) THEN
            \* reuse existing transport
            IF v = ObjectMember THEN NotATransport("POST", h, init)
            ELSE TransportPost(v, h, init)
       ELSE IF isCreate(h, init) THEN
            \* new initialization request: construct, set onclose, connect
            /\ \E t \in Transports : tState[t] = "absent"
            /\ LET t == NextTransport IN
                /\ tState' = [tState EXCEPT ![t] = "connecting"]
                /\ engine' = t
                /\ bound' = [bound EXCEPT ![t] = @ + 1]
                /\ last' = Entry("POST", h, init, 0, NoBody, undefined, t, {})
            /\ UNCHANGED <<transports, tSessionId, tGet, tPending, exited, exitCode>>
       ELSE
            \* invalid request
            /\ last' = Entry("POST", h, init, 400, ErrorEnvelope, undefined, undefined, {})
            /\ UNCHANGED <<transports, tState, tSessionId, tGet, tPending, engine,
                           bound, exited, exitCode>>

\* app.post('/mcp') after `await server.connect(transport)`:
\* transport.handleRequest(req, res, req.body) with the initialize body.
\* id is the value the session id generator returns.
PostHandle(t, ok, id) ==
    /\ ~exited
    /\ UNCHANGED call
    /\ tState[t] = "connecting"
    /\ tState' = [tState EXCEPT ![t] = "open"]
    /\ IF ok THEN
            /\ tSessionId' = [tSessionId EXCEPT ![t] = id]
            /\ transports' = onsessioninitialized(transports, id, t)
            /\ tPending' = [tPending EXCEPT ![t] = 1]
            /\ last' = Entry("POST-handle", id, TRUE, 200, TransportBody, t, undefined, {})
       ELSE
            /\ last' = Entry("POST-handle", NoId, TRUE, 406, TransportBody, t, undefined, {})
            /\ UNCHANGED <<transports, tSessionId, tPending>>
    /\ UNCHANGED <<tGet, engine, bound, exited, exitCode>>

\* the engine answers a request: the POST response is written and ended
PostComplete(t) ==
    /\ ~exited
    /\ UNCHANGED call
    /\ tPending[t] > 0
    /\ tPending' = [tPending EXCEPT ![t] = @ - 1]
    /\ last' = Entry("POST-done", tSessionId[t], FALSE, 200, TransportBody, t, undefined, {})
    /\ UNCHANGED <<transports, tState, tSessionId, tGet, engine, bound, exited, exitCode>>

\* StreamableHTTPServerTransport.handleRequest for a GET: opens the
\* notification stream unless the session check fails or one is open already
TransportGet(t, h) ==
    \E ok \in BOOLEAN :
    LET status == IF ~ok THEN 406
                  ELSE IF tSessionId[t] = NoId THEN 400
                  ELSE IF h # tSessionId[t] THEN 404
                  ELSE IF tGet[t] THEN 409
                  ELSE 200
    IN  /\ tGet' = [tGet EXCEPT ![t] = (status = 200) \/ @]
        /\ last' = Entry("GET", h, FALSE, status, TransportBody, t, undefined, {})
        /\ UNCHANGED <<transports, tState, tSessionId, tPending, engine, bound,
                       exited, exitCode>>

\* StreamableHTTPServerTransport.handleRequest for a DELETE: the explicit
\* termination signal; the transport closes and fires its close callback
TransportDelete(t, h) ==
    LET status == IF tSessionId[t] = NoId THEN 400
                  ELSE IF h # tSessionId[t] THEN 404
                  ELSE 200
    IN  /\ IF status = 200 THEN Install(Close(Bundle, t))
           ELSE UNCHANGED <<transports, tState, tGet, tPending, engine>>
        /\ last' = Entry("DELETE", h, FALSE, status, TransportBody, t, undefined,
                         IF status = 200 /\ tGet[t] THEN {t} ELSE {})
        /\ UNCHANGED <<tSessionId, bound, exited, exitCode>>

\* handleSessionRequest, serving app.get('/mcp') and app.delete('/mcp')
handleSessionRequest(method, h) ==
    /\ ~exited
    /\ UNCHANGED call
    /\ LET v == Lookup(transports, h) IN
       IF h = NoId \/ ~Truthy(v) THEN
            /\ last' = Entry(method, h, FALSE, 400, InvalidSessionText, undefined, undefined, {})
            /\ UNCHANGED <<transports, tState, tSessionId, tGet, tPending, engine,
                           bound, exited, exitCode>>
       ELSE IF v = ObjectMember THEN NotATransport(method, h, FALSE)
       ELSE IF method = "GET" THEN TransportGet(v, h)
       ELSE TransportDelete(v, h)

Get(h) == handleSessionRequest("GET", h)

Delete(h) == handleSessionRequest("DELETE", h)

\* the client drops its GET connection
GetDisconnect(t) ==
    /\ ~exited
    /\ UNCHANGED call
    /\ tGet[t]
    /\ tGet' = [tGet EXCEPT ![t] = FALSE]
    /\ last' = Entry("GET-end", tSessionId[t], FALSE, 0, NoBody, t, undefined, {t})
    /\ UNCHANGED <<transports, tState, tSessionId, tPending, engine, bound,
                   exited, exitCode>>

\* process.on('SIGINT') / process.on('SIGTERM'): close every registered
\* transport, close the server, exit 0
Shutdown(sig) ==
    /\ ~exited
    /\ UNCHANGED call
    /\ Install(ServerClose(CloseEach(Bundle, Values(transports))))
    /\ exited' = TRUE
    /\ exitCode' = 0
    /\ last' = Entry(sig, NoId, FALSE, 0, NoBody, undefined, undefined,
                     {t \in Transports : tGet[t] /\ ~tGet'[t]})
    /\ UNCHANGED <<tSessionId, bound>>

\* ------------------------------------------------------- specifications
Requests ==
    \/ \E h \in HeaderValues, init \in BOOLEAN : Post(h, init)
    \/ \E t \in Transports : PostComplete(t)
    \/ \E h \in HeaderValues : Get(h)
    \/ \E h \in HeaderValues : Delete(h)
    \/ \E t \in Transports : GetDisconnect(t)
    \/ \E sig \in Signals : Shutdown(sig)

\* the generator never returns the same id twice
Next ==
    \/ Requests
    \/ \E t \in Transports, ok \in BOOLEAN, id \in FreshUUID : PostHandle(t, ok, id)

Spec == Init /\ [][Next]_vars

\* the generator may return any id, a repeated one included
NextAnyId ==
    \/ Requests
    \/ \E t \in Transports, ok \in BOOLEAN, id \in randomUUID : PostHandle(t, ok, id)

SpecAnyId == Init /\ [][NextAnyId]_vars

\* The registry callbacks on their own, fired in any order and any number
\* of times: the ready callback once per transport, the close callback as
\* often as the transport cares to fire it.
RegistryCreate(t, id) ==
    /\ tSessionId[t] = NoId
    /\ tSessionId' = [tSessionId EXCEPT ![t] = id]
    /\ tState' = [tState EXCEPT ![t] = "open"]
    /\ transports' = onsessioninitialized(transports, id, t)
    /\ last' = Entry("onsessioninitialized", id, FALSE, 0, NoBody, t, undefined, {})
    /\ UNCHANGED <<tGet, tPending, engine, bound, exited, exitCode, call>>

RegistryRemove(t) ==
    /\ transports' = onclose(transports, tSessionId[t])
    /\ tState' = [tState EXCEPT ![t] = "closed"]
    /\ last' = Entry(IF tState[t] = "closed" THEN "onclose-again" ELSE "onclose",
                     tSessionId[t], FALSE, 0, NoBody, t, undefined, {})
    /\ UNCHANGED <<tSessionId, tGet, tPending, engine, bound, exited, exitCode, call>>

\* transports[sessionId], as the routes read it
RegistryLookup(h) ==
    /\ last' = Entry("lookup", h, FALSE, 0, NoBody, Lookup(transports, h), undefined, {})
    /\ UNCHANGED <<transports, tState, tSessionId, tGet, tPending, engine, bound,
                   exited, exitCode, call>>

NextRegistry ==
    \/ \E t \in Transports, id \in randomUUID : RegistryCreate(t, id)
    \/ \E t \in Transports : RegistryRemove(t)
    \/ \E h \in HeaderValues : RegistryLookup(h)

SpecRegistry == Init /\ [][NextRegistry]_vars

\* A tool call arrives: get-library-docs with some `tokens` argument, or
\* with some library id, or resolve-library-id with some search outcome.
SearchOutcomes == {[kind |-> "null", n |-> 0], [kind |-> "noResults", n |-> 0]}
                    \cup {[kind |-> "results", n |-> n] : n \in 0..MaxResults}

DefaultLibraryId == <<"v", "/", "v">>

ToolCalls ==
    {[NoCall EXCEPT !.stage = "called", !.tool = "get-library-docs",
                    !.libraryId = DefaultLibraryId, !.tokens = v] : v \in TokenInputs}
    \cup {[NoCall EXCEPT !.stage = "called", !.tool = "get-library-docs",
                         !.libraryId = id] : id \in LibraryIds}
    \cup {[NoCall EXCEPT !.stage = "called", !.tool = "resolve-library-id",
                         !.search = r] : r \in SearchOutcomes}

InitTools ==
    /\ transports = [id \in SessionIds |-> undefined]
    /\ tState = [t \in Transports |-> "absent"]
    /\ tSessionId = [t \in Transports |-> NoId]
    /\ tGet = [t \in Transports |-> FALSE]
    /\ tPending = [t \in Transports |-> 0]
    /\ engine = undefined
    /\ bound = [t \in Transports |-> 0]
    /\ exited = FALSE
    /\ exitCode = -1
    /\ last = Entry("none", NoId, FALSE, 0, NoBody, undefined, undefined, {})
    /\ call \in ToolCalls

\* the arguments are validated against the tool's input schema
ValidateArguments ==
    /\ call.stage = "called"
    /\ call' = [call EXCEPT !.parsed = tokensSchema(call.tokens),
                            !.stage = IF tokensSchema(call.tokens) = Invalid
                                      THEN "rejected" ELSE "validated"]
    /\ UNCHANGED <<transports, tState, tSessionId, tGet, tPending, engine, bound,
                   exited, exitCode, last>>

\* the handler: tokens = DEFAULT_MINIMUM_TOKENS when undefined, then
\* fetchLibraryDocumentation(libraryId, { tokens, topic, folders })
GetLibraryDocs ==
    /\ call.stage = "validated"
    /\ call.tool = "get-library-docs"
    /\ call' = [call EXCEPT !.fetched = IF call.parsed.type = "undefined"
                                        THEN DEFAULT_MINIMUM_TOKENS
                                        ELSE call.parsed.num,
                            !.fetchedId = forwarded(call.libraryId).libraryId,
                            !.folders = forwarded(call.libraryId).folders,
                            !.stage = "fetched"]
    /\ UNCHANGED <<transports, tState, tSessionId, tGet, tPending, engine, bound,
                   exited, exitCode, last>>

\* the texts resolve-library-id answers with
FailedText == "Failed to retrieve library documentation data from Context7"
NoLibrariesText == "No documentation libraries available"
AvailableText == "Available libraries and their Context7-compatible library IDs:"

\* mutant: the check for an empty result list is missing
resolveLibraryId_noEmptyCheck(searchResponse) ==
    IF searchResponse.kind \in {"null", "noResults"} THEN FailedText
    ELSE AvailableText

\* lines 38-73: the text the resolve-library-id handler returns
resolveLibraryId(searchResponse) ==
    IF searchResponse.kind \in {"null", "noResults"} THEN FailedText
    ELSE IF searchResponse.n = 0 THEN NoLibrariesText
    ELSE AvailableText

\* the resolve-library-id handler runs on what searchLibraries returned
ResolveLibraryId ==
    /\ call.stage = "validated"
    /\ call.tool = "resolve-library-id"
    /\ call' = [call EXCEPT !.result = resolveLibraryId(call.search),
                            !.stage = "returned"]
    /\ UNCHANGED <<transports, tState, tSessionId, tGet, tPending, engine, bound,
                   exited, exitCode, last>>

NextTools == ValidateArguments \/ GetLibraryDocs \/ ResolveLibraryId

SpecTools == InitTools /\ [][NextTools]_vars

\* ---------------------------------------------------------------- claims

\* C1: every POST whose mcp-session-id header names an id that has no entry
\* in the registry is answered 400 with the JSON-RPC error envelope (code
\* -32000, id null), constructs no transport and leaves the registry as it was.
C1_UnknownSessionPostRejected ==
    [][(/\ last'.kind = "POST"
        /\ last'.hdr # NoId
        /\ last'.hdr \notin Registered(transports))
       => (/\ last'.status = 400
           /\ last'.body.type = "jsonrpc"
           /\ last'.body.code = -32000
           /\ last'.body.id = "null"
           /\ last'.constructed = undefined
           /\ tState' = tState
           /\ transports' = transports)]_vars

\* C5: every GET or DELETE whose mcp-session-id header is missing or names
\* an id with no entry in the registry is answered 400 with the plain text
\* "Invalid or missing session ID", reaches no transport and leaves the
\* registry as it was.
C5_UnknownSessionGetDeleteRejected ==
    [][(/\ last'.kind \in {"GET", "DELETE"}
        /\ last'.hdr \notin Registered(transports))
       => (/\ last'.status = 400
           /\ last'.body = InvalidSessionText
           /\ last'.delegated = undefined
           /\ transports' = transports)]_vars

\* C2: a handshake-initiation POST without a session header constructs a
\* new transport; when its handshake completes the transport is registered
\* under an id no other transport was given; a later POST carrying a
\* registered id is delegated to the transport that was given that id and
\* constructs nothing.
C2_HandshakeCreatesUniqueSessionAndReuses ==
    [][/\ (last'.kind = "POST" /\ last'.hdr = NoId /\ last'.init)
            => (/\ last'.constructed \in Transports
                /\ tState[last'.constructed] = "absent"
                /\ tState'[last'.constructed] = "connecting"
                /\ \A u \in Transports \ {last'.constructed} : tState'[u] = tState[u])
       /\ (last'.kind = "POST-handle" /\ last'.status = 200)
            => (/\ last'.hdr \in SessionIds
                /\ transports'[last'.hdr] = last'.delegated
                /\ tSessionId'[last'.delegated] = last'.hdr
                /\ \A u \in Transports \ {last'.delegated} : tSessionId'[u] # last'.hdr)
       /\ (last'.kind = "POST" /\ last'.hdr \in Registered(transports))
            => (/\ last'.delegated = transports[last'.hdr]
                /\ tSessionId[last'.delegated] = last'.hdr
                /\ last'.constructed = undefined
                /\ tState' = tState
                /\ transports' = transports)]_vars

\* two handshakes completed and a POST carrying the second id was accepted
\* by the second transport
C2_Witness ==
    /\ last.kind = "POST" /\ last.status = 200
    /\ last.hdr \in SessionIds
    /\ last.delegated = 2
    /\ tSessionId[2] = last.hdr
    /\ tSessionId[1] \in SessionIds
    /\ tSessionId[1] # tSessionId[2]

\* C3: a DELETE on a registered session id removes the id from the
\* registry and closes its transport; every later POST, GET or DELETE that
\* carries the id of a closed transport is rejected as an unknown session
\* (400, envelope for POST, plain text otherwise) and reaches no transport.
C3_DeletedSessionIsUnknown ==
    [][/\ (last'.kind = "DELETE" /\ last'.hdr \in Registered(transports))
            => (/\ last'.hdr \notin Registered(transports')
                /\ last'.delegated = transports[last'.hdr]
                /\ tState'[last'.delegated] = "closed")
       /\ (/\ last'.kind \in {"POST", "GET", "DELETE"}
           /\ \E t \in Transports : tState[t] = "closed" /\ tSessionId[t] = last'.hdr)
            => (/\ last'.status = 400
                /\ last'.body = IF last'.kind = "POST" THEN ErrorEnvelope
                                ELSE InvalidSessionText
                /\ last'.delegated = undefined
                /\ last'.constructed = undefined
                /\ transports' = transports
                /\ tState' = tState)]_vars

\* a GET carrying the id of a session that was deleted earlier was rejected
C3_Witness ==
    /\ last.kind = "GET" /\ last.status = 400
    /\ \E t \in Transports : tState[t] = "closed" /\ tSessionId[t] = last.hdr

\* C4: when a transport closes (DELETE or the shutdown sweep) its GET
\* notification stream is ended in the same step and stays ended; after a
\* graceful shutdown no notification stream is left open.  A POST response
\* in flight at the close is ended with the transport and puts no
\* obligation on the close.
C4_CloseEndsNotificationStream ==
    [][/\ \A t \in Transports : tState'[t] = "closed" => ~tGet'[t]
       /\ (last'.kind = "DELETE" /\ last'.hdr \in Registered(transports))
            => ~tGet'[transports[last'.hdr]]
       /\ (last'.kind \in Signals)
            => (/\ \A t \in Transports : ~tGet'[t]
                /\ last'.ended = {t \in Transports : tGet[t]})]_vars

\* a DELETE ended the open notification stream of its session
C4_Witness ==
    /\ last.kind = "DELETE" /\ last.status = 200
    /\ last.ended = {last.delegated}
    /\ tState[last.delegated] = "closed"

\* C6: a termination signal closes every transport that is in the registry,
\* each close removes that transport's entry, and the process exits with
\* code 0 on an empty registry.
C6_ShutdownEmptiesRegistry ==
    [][(last'.kind \in Signals)
        => (/\ \A t \in Values(transports) : tState'[t] = "closed"
            /\ \A id \in Registered(transports) : transports'[id] = undefined
            /\ Registered(transports') = {}
            /\ exited' /\ exitCode' = 0)]_vars

\* a signal arrived while two sessions were live, each with its
\* notification stream open, and both were closed and removed
C6_Witness ==
    /\ last.kind \in Signals
    /\ last.ended = {1, 2}
    /\ tState[1] = "closed" /\ tState[2] = "closed"
    /\ Registered(transports) = {}
    /\ exited /\ exitCode = 0

\* C7: in every reachable state each id in the registry maps to a transport
\* whose own session id is that id (its handshake completed) and which is
\* open, not closed; no transport is registered under two ids.
C7_RegistryHoldsLiveSessions ==
    /\ \A id \in Registered(transports) :
          /\ transports[id] \in Transports
          /\ tSessionId[transports[id]] = id
          /\ tState[transports[id]] = "open"
    /\ \A id1, id2 \in Registered(transports) :
          transports[id1] = transports[id2] => id1 = id2

\* two sessions are registered, one of them with its notification stream
\* open and a POST response in flight
C7_Witness ==
    /\ Cardinality(Registered(transports)) = 2
    /\ \E t \in Transports : tGet[t] /\ tPending[t] > 0

\* C8 as stated: registering an id that is already in the registry fails
\* and leaves the existing mapping for that id unchanged.
C8_DuplicateRegistrationFails ==
    [][(last'.kind = "POST-handle" /\ last'.hdr \in Registered(transports))
        => (/\ transports'[last'.hdr] = transports[last'.hdr]
            /\ last'.status # 200)]_vars

\* C8 as amended: registering an id that is already in the registry raises
\* no error and replaces the mapping: the id now maps to the newly
\* initialised transport, every other entry is unchanged, and the earlier
\* transport stays open but is no longer reachable through the registry.
C8_DuplicateRegistrationReplaces ==
    [][(last'.kind = "POST-handle" /\ last'.hdr \in Registered(transports))
        => (/\ last'.status = 200
            /\ transports'[last'.hdr] = last'.delegated
            /\ transports[last'.hdr] # last'.delegated
            /\ \A id \in SessionIds \ {last'.hdr} : transports'[id] = transports[id]
            /\ tState'[transports[last'.hdr]] = "open"
            /\ transports[last'.hdr] \notin Values(transports'))]_vars

\* a handshake was given the id of a session that is still open: the
\* registry now holds the new transport under that id
C8_Witness ==
    /\ last.kind = "POST-handle" /\ last.status = 200
    /\ transports[last.hdr] = last.delegated
    /\ \E u \in Transports \ {last.delegated} :
          tSessionId[u] = last.hdr /\ tState[u] = "open"

\* C9: removing an id from the registry is idempotent: the close callback
\* of a transport whose id has no entry leaves the registry unchanged, and
\* after any removal of an id a second removal of it changes nothing.
C9_RemoveIsIdempotent ==
    [][(last'.kind \in {"onclose", "onclose-again"})
        => (/\ (last'.hdr \notin Registered(transports)) => transports' = transports
            /\ last'.hdr \notin Registered(transports')
            /\ \A id \in SessionIds \ {last'.hdr} : transports'[id] = transports[id]
            /\ onclose(transports', last'.hdr) = transports')]_vars

\* the close callback of an already closed transport fired again, its id
\* gone from the registry, while another session stays registered
C9_Witness ==
    /\ last.kind = "onclose-again"
    /\ last.hdr \in SessionIds
    /\ transports[last.hdr] = undefined
    /\ Registered(transports) # {}

\* C10: the token count handed to the documentation fetch is 5000 when
\* `tokens` is omitted and max(tokens, 5000) when it is given as a number or
\* as a numeric string: never below the floor, never below the value given,
\* and always one of the two.
C10_TokensClampedUpward ==
    (call.stage = "fetched") =>
        IF call.tokens.type = "undefined"
        THEN call.fetched = 5000
        ELSE LET given == IF call.tokens.type = "string"
                          THEN Number(call.tokens.str).num
                          ELSE call.tokens.num
             IN  /\ call.fetched >= 5000
                 /\ call.fetched >= given
                 /\ call.fetched \in {given, 5000}

\* the fetch was called with 5000 for the string "50"
C10_Witness ==
    /\ call.stage = "fetched"
    /\ call.tokens = StringValue(<<"5", "0">>)
    /\ call.fetched = 5000

\* C11: for a library id that contains "?folders=", the fetch receives a
\* bare id and a folder selector with bare id + "?folders=" + selector equal
\* to the id given (nothing is lost); an id without it is forwarded
\* unchanged with an empty selector.
C11_FoldersSplitLosesNothing ==
    (call.stage = "fetched") =>
        IF includes(call.libraryId, FoldersMarker)
        THEN call.fetchedId \o FoldersMarker \o call.folders = call.libraryId
        ELSE call.fetchedId = call.libraryId /\ call.folders = <<>>

\* C12: whatever the search came back with (null, no result list, zero
\* results, some results) the resolve-library-id handler returns a text
\* payload, and for zero results the text is exactly
\* "No documentation libraries available".
C12_ResolveAlwaysAnswersText ==
    /\ (call.tool = "resolve-library-id" /\ call.stage = "validated")
            => ENABLED ResolveLibraryId
    /\ (call.tool = "resolve-library-id" /\ call.stage = "returned")
            => (/\ call.result \in {FailedText, NoLibrariesText, AvailableText}
                /\ (call.search.kind = "results" /\ call.search.n = 0)
                        <=> call.result = "No documentation libraries available"
                /\ (call.search.kind \in {"null", "noResults"})
                        <=> call.result = FailedText)

\* the search returned an empty list and the handler answered with the text
C12_Witness ==
    /\ call.tool = "resolve-library-id" /\ call.stage = "returned"
    /\ call.search = [kind |-> "results", n |-> 0]
    /\ call.result = NoLibrariesText

\* C13 as stated: a POST whose session header names a session that is not
\* in the registry is answered with the error envelope {jsonrpc "2.0",
\* error {code -32000, message "session not found"}, id null}.
C13_UnknownSessionMessageNotFound ==
    [][(/\ last'.kind = "POST"
        /\ last'.hdr # NoId
        /\ last'.hdr \notin Registered(transports))
       => (/\ last'.body.type = "jsonrpc"
           /\ last'.body.code = -32000
           /\ last'.body.message = "session not found"
           /\ last'.body.id = "null")]_vars

\* C13 as amended: a POST whose session header names a session that is not
\* in the registry is answered, when the lookup of the header yields
\* nothing, with status 400 and the envelope {jsonrpc "2.0", error {code
\* -32000, message "Bad Request: No valid session ID provided or not an
\* initialization request."}, id null}; when the header is the name of a
\* member every object inherits, the lookup yields that member and the
\* request gets no envelope at all (status 500 or no answer).  The text
\* "session not found" is in no answer.
C13_UnknownSessionMessageBadRequest ==
    [][(/\ last'.kind = "POST"
        /\ last'.hdr # NoId
        /\ last'.hdr \notin Registered(transports))
       => (/\ last'.body.message # "session not found"
           /\ IF Lookup(transports, last'.hdr) = undefined
              THEN /\ last'.status = 400
                   /\ last'.body.type = "jsonrpc"
                   /\ last'.body.code = -32000
                   /\ last'.body.message =
                        "Bad Request: No valid session ID provided or not an initialization request."
                   /\ last'.body.id = "null"
              ELSE /\ last'.status \in {0, 500}
                   /\ last'.body = NoBody)]_vars

\* a POST named an id that no session has, while another session is
\* registered, and was answered 400 with the envelope
C13_Witness ==
    /\ last.kind = "POST" /\ last.hdr \in SessionIds
    /\ last.hdr \notin Registered(transports)
    /\ Registered(transports) # {}
    /\ last.status = 400 /\ last.body.type = "jsonrpc"

\* C14: a POST that carries a session header never takes the create path,
\* whatever its body: a registered id is delegated to that session's
\* transport, a handshake body included; an unregistered one is rejected
\* with 400; in both cases no transport is constructed and the registry is
\* as it was.
C14_HeaderNeverCreates ==
    [][(last'.kind = "POST" /\ last'.hdr # NoId)
       => (/\ last'.constructed = undefined
           /\ tState' = tState
           /\ bound' = bound
           /\ transports' = transports
           /\ IF last'.hdr \in Registered(transports)
              THEN last'.delegated = transports[last'.hdr]
              ELSE /\ last'.delegated = undefined
                   /\ last'.status = 400
                   /\ last'.body.type = "jsonrpc")]_vars

\* C15: a POST with no session header and a body that is no handshake is
\* answered 400 with the JSON-RPC envelope (code -32000, id null); it
\* constructs no transport, binds the engine to nothing and leaves the
\* registry as it was; and no request of any verb that is answered with an
\* error status changes the registry.
C15_RejectionLeavesNothingBehind ==
    [][/\ (last'.kind = "POST" /\ last'.hdr = NoId /\ ~last'.init)
            => (/\ last'.status = 400
                /\ last'.body.type = "jsonrpc"
                /\ last'.body.code = -32000
                /\ last'.body.id = "null"
                /\ last'.constructed = undefined
                /\ last'.delegated = undefined
                /\ tState' = tState
                /\ tSessionId' = tSessionId
                /\ engine' = engine
                /\ bound' = bound
                /\ transports' = transports)
       /\ (last'.status >= 400)
            => (/\ transports' = transports
                /\ tSessionId' = tSessionId
                /\ \A t \in Transports : tState[t] = "absent" => tState'[t] = "absent")
      ]_vars

\* a POST without header and without handshake body was answered 400 while
\* a session is registered and a transport can still be constructed
C15_Witness ==
    /\ last.kind = "POST" /\ last.hdr = NoId /\ ~last.init
    /\ last.status = 400
    /\ Registered(transports) # {}
    /\ \E t \in Transports : tState[t] = "absent"

\* C16: closed is terminal: a closed transport stays closed, no POST, GET
\* or DELETE is delegated to a transport that is closed, a closed transport
\* is in no registry entry, and a transport is given a session id (and its
\* registry entry) once at most, while it has none.
C16_ClosedIsTerminal ==
    [][/\ \A t \in Transports :
            /\ tState[t] = "closed" => tState'[t] = "closed"
            /\ tState'[t] = "closed" => t \notin Values(transports')
            /\ tSessionId'[t] # tSessionId[t] => tSessionId[t] = NoId
            /\ (t \in Values(transports') /\ t \notin Values(transports))
                    => (tSessionId[t] = NoId /\ tSessionId'[t] # NoId)
       /\ (last'.kind \in {"POST", "GET", "DELETE", "POST-handle"}
                /\ last'.delegated # undefined)
            => tState[last'.delegated] # "closed"
      ]_vars

\* a DELETE closed a session, and then a request naming its id was
\* answered 400 without reaching the closed transport
C16_Witness ==
    /\ \E t \in Transports :
          tState[t] = "closed" /\ tSessionId[t] = last.hdr /\ tSessionId[t] # NoId
    /\ last.kind \in {"POST", "GET", "DELETE"}
    /\ last.status = 400 /\ last.delegated = undefined
    /\ ~exited

\* C17: the one protocol engine is bound to each transport exactly once,
\* on the create path and before a request is delegated to it; a reused
\* transport is not bound again; and the step that creates a later session
\* leaves the transport of every earlier live session the one the engine
\* is bound to.
C17_EngineStaysBoundToEarlierSessions ==
    [][/\ \A t \in Transports : bound'[t] <= 1
       /\ (last'.constructed # undefined)
            => (/\ bound'[last'.constructed] = 1
                /\ engine' = last'.constructed)
       /\ (last'.delegated # undefined)
            => (bound[last'.delegated] = 1 /\ bound' = bound)
       /\ (last'.constructed # undefined)
            => \A u \in Transports :
                  (tState[u] \in {"connecting", "open"} /\ engine = u)
                        => engine' = u
      ]_vars

\* C18: sessions are isolated: whatever a request, a rejection, a DELETE or
\* a close concerning one session id does, the registry entry of every
\* other id is as it was; a lookup of another id made right after a
\* removal resolves to the transport it resolved to before, which is that
\* session's own and has not been closed by the step.
C18_OtherSessionsUntouched ==
    [][(last'.kind \notin Signals)
        => \A b \in SessionIds \ {last'.hdr} :
              /\ transports'[b] = transports[b]
              /\ Lookup(transports', b) = Lookup(transports, b)
              /\ (transports[b] # undefined)
                    => (/\ tSessionId'[transports'[b]] = b
                        /\ tState'[transports'[b]] = tState[transports[b]]
                        /\ tGet'[transports'[b]] = tGet[transports[b]])
      ]_vars

\* a DELETE removed one session while the other is registered with its
\* notification stream open
C18_Witness ==
    /\ last.kind = "DELETE" /\ last.status = 200
    /\ last.hdr \notin Registered(transports)
    /\ \E b \in Registered(transports) :
          /\ b # last.hdr
          /\ tSessionId[transports[b]] = b
          /\ tGet[transports[b]]

\* C19: with handshake POSTs in flight together and a generator that
\* returns distinct ids, each request has a transport of its own and a
\* registry entry of its own: the ready callback of one request registers
\* that request's transport under its own id and touches no entry of
\* another transport, the close callback of one session removes no entry
\* of another transport, and every open transport that has a session id
\* is the one registered under it.
C19_ConcurrentHandshakesStayApart ==
    [][/\ (last'.constructed # undefined)
            => tState[last'.constructed] = "absent"
       /\ (last'.kind = "POST-handle" /\ last'.status = 200)
            => (/\ transports'[last'.hdr] = last'.delegated
                /\ tSessionId'[last'.delegated] = last'.hdr
                /\ transports[last'.hdr] = undefined)
       /\ (last'.kind \in {"POST-handle", "DELETE"})
            => \A u \in Transports \ {last'.delegated}, id \in SessionIds :
                  (transports'[id] = u) <=> (transports[id] = u)
       /\ \A t \in Transports :
            (tState'[t] = "open" /\ tSessionId'[t] # NoId)
                => transports'[tSessionId'[t]] = t
      ]_vars

\* two handshakes were in flight together and the one that started later
\* completed first: its transport is registered, the earlier one is still
\* between engine binding and request handling
C19_Witness ==
    /\ last.kind = "POST-handle" /\ last.status = 200
    /\ \E t, u \in Transports :
          /\ t < u
          /\ tState[t] = "connecting"
          /\ last.delegated = u
          /\ transports[last.hdr] = u

\* C20: the close callback of a transport that was never given a session
\* id removes no entry from the registry and adds none: every id maps to
\* what it mapped to before.
C20_CloseWithoutIdKeepsRegistry ==
    [][(/\ last'.kind \in {"onclose", "onclose-again"}
        /\ tSessionId[last'.delegated] = NoId)
       => (/\ last'.hdr = NoId
           /\ Registered(transports') = Registered(transports)
           /\ \A id \in SessionIds : transports'[id] = transports[id])]_vars

\* a transport without a session id closed while another session is
\* registered
C20_Witness ==
    /\ last.kind = "onclose" /\ last.hdr = NoId
    /\ tState[last.delegated] = "closed" /\ tSessionId[last.delegated] = NoId
    /\ Registered(transports) # {}

====
